---- MODULE Spec2Model ----
(***************************************************************************)
(* CitySculpt: the baseplate page (main.js) and the scene module that      *)
(* builds the tiled baseplate (createBaseplate, setupEnvironment).         *)
(*                                                                         *)
(* A "generation" is one call of init(): it creates one renderer (whose    *)
(* canvas goes into document.body), one scene, one baseplate group and one *)
(* asynchronous loader.load request per tile.  The load callbacks run      *)
(* later, one at a time, in an order the loader decides.                   *)
(*                                                                         *)
(* Coordinates are kept in HALF world units (x2 = 2*x): tileSize / 2 is a  *)
(* half-integer for an odd tileSize, and every value the code computes     *)
(* from integer arguments is a multiple of 1/2, exactly representable in a *)
(* JavaScript number.                                                      *)
(***************************************************************************)
EXTENDS Integers, Sequences, FiniteSets, TLC

\* ------------------------------------------------------------------ bounds

\* number of init() calls explored (the page load and the clicks after it)
MaxGen == 3
\* only the first MaxLoad load requests of a generation are resolved (the
\* others stay in flight for as long as the behaviour lasts)
MaxLoad == 2
\* the exported createBaseplate is called with width, length in 1..MaxWidth
\* (and the scenario values) and tileSize in 1..MaxTile
MaxWidth == 9
MaxTile == 5

\* ------------------------------------------------------- program constants

\* widthInput.min / lengthInput.min and .max: attributes only, main.js reads
\* the value whatever they are
UiMin == 20
UiMax == 500
\* createBaseplate's default tileSize
DefaultTileSize == 4
\* setupEnvironment: position = new THREE.Vector3(0, -4, 0); position.y
PlateY == -4

\* --------------------------------------------------------- JavaScript numbers

\* a number is an integer or NaN
NaN == [nan |-> TRUE, val |-> 0]
Num(n) == [nan |-> FALSE, val |-> n]

DigitChars == {"0", "1", "2", "3", "4", "5", "6", "7", "8", "9"}
DigitVal ==
    "0" :> 0 @@ "1" :> 1 @@ "2" :> 2 @@ "3" :> 3 @@ "4" :> 4 @@
    "5" :> 5 @@ "6" :> 6 @@ "7" :> 7 @@ "8" :> 8 @@ "9" :> 9

\* the value of the longest run of digits of s that starts at position i
RECURSIVE ParseDigits(_, _, _)
ParseDigits(s, i, acc) ==
    IF i > Len(s) \/ s[i] \notin DigitChars
    THEN acc
    ELSE ParseDigits(s, i + 1, acc * 10 + DigitVal[s[i]])

\* parseInt(string): an optional sign, then digits up to the first character
\* that is none; NaN when there is no digit.  A string is a sequence of
\* one-character strings.
parseInt(s) ==
    LET signed == Len(s) > 0 /\ s[1] \in {"-", "+"}
        start == IF signed THEN 2 ELSE 1
    IN  IF start > Len(s) \/ s[start] \notin DigitChars
        THEN NaN
        ELSE Num((IF signed /\ s[1] = "-" THEN -1 ELSE 1) * ParseDigits(s, start, 0))

\* Math.ceil(a / b) for a number a and an integer b > 0.  NaN / b is NaN and
\* Math.ceil(NaN) is NaN; \div rounds down, so the ceiling is -floor(-a / b).
MathCeilDivFloor(a, b) == IF a.nan THEN NaN ELSE Num(a.val \div b)
MathCeilDivClamped(a, b) ==
    IF a.nan THEN NaN
    ELSE LET w == IF a.val < UiMin THEN UiMin ELSE IF a.val > UiMax THEN UiMax ELSE a.val
         IN  Num(-((-w) \div b))
MathCeilDiv(a, b) == IF a.nan THEN NaN ELSE Num(-((-a.val) \div b))

\* how often the body of `for (let x = 0; x < tiles; x++)` runs: x < NaN is
\* false, and so is 0 < tiles for tiles <= 0
LoopRunsOneLess(tiles) == IF tiles.nan \/ tiles.val <= 1 THEN 0 ELSE tiles.val - 1
LoopRuns(tiles) == IF tiles.nan \/ tiles.val <= 0 THEN 0 ELSE tiles.val

\* ------------------------------------------------------------ createBaseplate

\* twice offsetX = (tilesX * tileSize) / 2 - tileSize / 2
Offset2NoHalfTile(tiles, tileSize) == tiles * tileSize
Offset2(tiles, tileSize) == tiles * tileSize - tileSize

\* twice posX = (x * tileSize) - offsetX
Pos2(x, tileSize, offset2) == 2 * (x * tileSize) - offset2

\* The load requests createBaseplate issues, in the order of its loops (x
\* outer, z inner): request i is the one of cell (x, z), and its callback
\* closes over posX, posZ and yPosition.
LoadRequests(width, length, yPosition, tileSize) ==
    LET tilesX == MathCeilDiv(width, tileSize)
        tilesZ == MathCeilDiv(length, tileSize)
        nx == LoopRuns(tilesX)
        nz == LoopRuns(tilesZ)
    IN  [i \in 1..(nx * nz) |->
            LET x == (i - 1) \div nz
                z == (i - 1) % nz
            IN  [x |-> x, z |-> z,
                 posX2 |-> Pos2(x, tileSize, Offset2(tilesX.val, tileSize)),
                 y2 |-> 2 * yPosition,
                 posZ2 |-> Pos2(z, tileSize, Offset2(tilesZ.val, tileSize))]]

\* ----------------------------------------------------------------- state

VARIABLES
    loaded,           \* DOMContentLoaded has fired
    body,             \* the children of document.body, in order
    widthInput,       \* widthInput.value
    lengthInput,      \* lengthInput.value
    gen,              \* number of generations so far; the latest is the current one
    calls,            \* per generation: the arguments createBaseplate was called with
    loads,            \* per generation: the load requests issued, in order
    resolved,         \* per generation: the requests that have completed or failed
    group,            \* per generation: the children of its baseplate group, in order
    consoleErrors,    \* per generation: the requests whose failure the loader reported
    resizeListeners,  \* the generations whose resize listener is registered on window
    animating,        \* the generations whose animate() has a frame requested
    lateLoad          \* history: a load callback has run after a later init()

vars == <<loaded, body, widthInput, lengthInput, gen, calls, loads, resolved,
          group, consoleErrors, resizeListeners, animating, lateLoad>>

Container == [kind |-> "container", of |-> 0]
Canvas(g) == [kind |-> "canvas", of |-> g]

Init ==
    /\ loaded = FALSE
    /\ body = <<>>
    /\ widthInput = <<>>
    /\ lengthInput = <<>>
    /\ gen = 0
    /\ calls = <<>>
    /\ loads = <<>>
    /\ resolved = <<>>
    /\ group = <<>>
    /\ consoleErrors = <<>>
    /\ resizeListeners = {}
    /\ animating = {}
    /\ lateLoad = FALSE

\* createBaseplate(scene, width, length, yPosition, tileSize) on a new scene:
\* a new, empty baseplate group, and one load request per cell.
createBaseplate(width, length, yPosition, tileSize) ==
    /\ gen' = gen + 1
    /\ calls' = Append(calls, [width |-> width, length |-> length,
                               yPosition |-> yPosition, tileSize |-> tileSize])
    /\ loads' = Append(loads, LoadRequests(width, length, yPosition, tileSize))
    /\ resolved' = Append(resolved, {})
    /\ group' = Append(group, <<>>)
    /\ consoleErrors' = Append(consoleErrors, {})

\* setupEnvironment(scene, baseplateWidth, baseplateLength): the plate height
\* is position.y and tileSize is left to its default.
setupEnvironment(baseplateWidth, baseplateLength) ==
    createBaseplate(baseplateWidth, baseplateLength, PlateY, DefaultTileSize)

\* init(baseplateWidth, baseplateLength), but for the canvas it appends to
\* document.body: the environment, the resize listener, the animation loop.
\* The default arguments apply to undefined only, never to NaN.
init(baseplateWidth, baseplateLength) ==
    /\ setupEnvironment(baseplateWidth, baseplateLength)
    /\ resizeListeners' = resizeListeners \cup {gen + 1}
    /\ animating' = animating \cup {gen + 1}

\* the value of both inputs when the page is built
InitialValue == <<"1", "0", "0">>

\* The DOMContentLoaded handler: the container first, then init() with the
\* parsed initial values.
DOMContentLoaded ==
    /\ ~loaded
    /\ gen = 0
    /\ loaded' = TRUE
    /\ widthInput' = InitialValue
    /\ UNCHANGED lateLoad
    /\ lengthInput' = InitialValue
    /\ init(parseInt(InitialValue), parseInt(InitialValue))
    /\ body' = Append(Append(body, Container), Canvas(gen + 1))

\* what the user has in the two fields when clicking: a small plate, a
\* negative width, and an emptied width with a zero length
InputPairs ==
    { << <<"8">>, <<"4">> >>,
      << <<"-", "5">>, <<"4">> >>,
      << <<>>, <<"0">> >> }

\* The click handler of generateButton, with w and l the values of the two
\* fields at the click: every child of body is removed, init() runs with the
\* parsed values, the container is appended again.
GenerateClick(w, l) ==
    /\ loaded
    /\ gen < MaxGen
    /\ widthInput' = w
    /\ lengthInput' = l
    /\ init(parseInt(w), parseInt(l))
    /\ body' = Append(Append(<<>>, Canvas(gen + 1)), Container)
    /\ UNCHANGED <<loaded, lateLoad>>

\* the group a load callback of generation g adds its tile to: the `baseplate`
\* of the createBaseplate call that issued it
ClosureBaseplateLatest(g) == gen
ClosureBaseplate(g) == g

\* the position a load callback of generation g, request i, gives its tile:
\* the posX, posZ of its own loop iteration
ClosurePositionShared(g, i) == loads[g][Len(loads[g])]
ClosurePosition(g, i) == loads[g][i]

\* The onLoad callback of request i of generation g.  The tile (gltf.scene, a
\* new object per load) is given its position and added to the group; from
\* and request record which callback made it.
LoadDone(g, i) ==
    /\ g \in 1..gen
    /\ i \in 1..Len(loads[g])
    /\ i <= MaxLoad
    /\ i \notin resolved[g]
    /\ resolved' = [resolved EXCEPT ![g] = @ \cup {i}]
    /\ LET p == ClosurePosition(g, i)
           tile == [posX2 |-> p.posX2, y2 |-> p.y2, posZ2 |-> p.posZ2,
                    from |-> g, request |-> i]
       IN  group' = [group EXCEPT ![ClosureBaseplate(g)] = Append(@, tile)]
    /\ lateLoad' = (lateLoad \/ g < gen)
    /\ UNCHANGED <<loaded, body, widthInput, lengthInput, gen, calls, loads,
                   consoleErrors, resizeListeners, animating>>

\* what a failed load does to the baseplate group: createBaseplate passes no
\* onError callback, so nothing
GroupAfterErrorAborted(grp) == <<>>
GroupAfterError(grp) == grp

\* Request i of generation g fails: no callback of createBaseplate runs, the
\* loader reports the error on the console.
LoadError(g, i) ==
    /\ g \in 1..gen
    /\ i \in 1..Len(loads[g])
    /\ i <= MaxLoad
    /\ i \notin resolved[g]
    /\ resolved' = [resolved EXCEPT ![g] = @ \cup {i}]
    /\ consoleErrors' = [consoleErrors EXCEPT ![g] = @ \cup {i}]
    /\ group' = [group EXCEPT ![g] = GroupAfterError(@)]
    /\ UNCHANGED <<loaded, body, widthInput, lengthInput, gen, calls, loads,
                   resizeListeners, animating, lateLoad>>

Next ==
    \/ DOMContentLoaded
    \/ \E p \in InputPairs : GenerateClick(p[1], p[2])
    \/ \E g \in 1..MaxGen, i \in 1..MaxLoad : LoadDone(g, i)
    \/ \E g \in 1..MaxGen, i \in 1..MaxLoad : LoadError(g, i)

Spec == Init /\ [][Next]_vars

\* ------------------------------------------------ the calculator on its own

\* the widths and lengths of the documented scenarios
ScenarioSizes == {20, 22, 100}
CalcSizes == (1..MaxWidth) \cup ScenarioSizes
CalcHeights == {PlateY, 0, 3}

\* A direct call of the exported createBaseplate on a new scene.
CallCreateBaseplate(width, length, yPosition, tileSize) ==
    /\ gen = 0
    /\ createBaseplate(Num(width), Num(length), yPosition, tileSize)
    /\ UNCHANGED <<loaded, body, widthInput, lengthInput, resizeListeners,
                   animating, lateLoad>>

NextCalc ==
    \E w \in CalcSizes, l \in CalcSizes, h \in CalcHeights, t \in 1..MaxTile :
        CallCreateBaseplate(w, l, h, t)

SpecCalc == Init /\ [][NextCalc]_vars

\* ------------------------------------------------------------ the claims

\* a call within createBaseplate's preconditions
ValidCall(c) ==
    /\ ~c.width.nan /\ c.width.val > 0
    /\ ~c.length.nan /\ c.length.val > 0
    /\ c.tileSize > 0

\* ceil(w / t) for integers w, t > 0, by its defining property: the least n
\* with n * t >= w
CeilOf(w, t) == CHOOSE n \in 1..w : n * t >= w /\ (n - 1) * t < w

Range(f) == {f[i] : i \in DOMAIN f}
Greatest(S) == CHOOSE m \in S : \A n \in S : n <= m
Least(S) == CHOOSE m \in S : \A n \in S : m <= n

\* the cells, and the centers (in half units), of the requests of generation g
CellsOf(g) == {<<loads[g][i].x, loads[g][i].z>> : i \in DOMAIN loads[g]}
CentersOf(g) == {<<loads[g][i].posX2, loads[g][i].posZ2>> : i \in DOMAIN loads[g]}
\* the centers of the tiles in the baseplate group of generation g
PlacedOf(g) == {<<group[g][k].posX2, group[g][k].posZ2>> : k \in DOMAIN group[g]}
\* the positions of the tiles of the group of generation g, in the group's order
PlacedSeq(g) == [k \in DOMAIN group[g] |-> <<group[g][k].posX2, group[g][k].y2, group[g][k].posZ2>>]
\* every request of generation g has completed, and none has failed
FullyLoaded(g) == consoleErrors[g] = {} /\ \A i \in DOMAIN loads[g] : i \in resolved[g]

\* C1: for valid width, length, tileSize and plate height h, createBaseplate
\* issues exactly one placement per cell (c, r), 0 <= c < columns, 0 <= r < rows
\* (columns * rows in all, none repeated, none skipped), the placement of
\* cell (c, r) being x = c*tileSize - offsetX, y = h, z = r*tileSize - offsetZ;
\* for 100 x 100 and tileSize 4 these are 625 placements with x and z running
\* from -48 to 48 in steps of 4.
C1_OnePlacementPerCell ==
    \A g \in 1..gen :
        ValidCall(calls[g]) =>
            LET c == calls[g]
                columns == CeilOf(c.width.val, c.tileSize)
                rows == CeilOf(c.length.val, c.tileSize)
            IN  /\ Len(loads[g]) = columns * rows
                /\ CellsOf(g) = (0..(columns - 1)) \X (0..(rows - 1))
                /\ \A i \in DOMAIN loads[g] :
                      /\ loads[g][i].posX2
                            = 2 * loads[g][i].x * c.tileSize - (columns * c.tileSize - c.tileSize)
                      /\ loads[g][i].y2 = 2 * c.yPosition
                      /\ loads[g][i].posZ2
                            = 2 * loads[g][i].z * c.tileSize - (rows * c.tileSize - c.tileSize)
                /\ (c.width.val = 100 /\ c.length.val = 100 /\ c.tileSize = 4) =>
                      /\ Len(loads[g]) = 625
                      /\ CentersOf(g) = {2 * (4 * k) : k \in -12..12} \X {2 * (4 * k) : k \in -12..12}

C1_Witness ==
    /\ gen = 1
    /\ calls[1].width = Num(100) /\ calls[1].length = Num(100) /\ calls[1].tileSize = 4
    /\ Len(loads[1]) = 625
    /\ <<-96, 96>> \in CentersOf(1)

\* C2: for valid inputs the grid is ceil(width / tileSize) columns by
\* ceil(length / tileSize) rows, both >= 1; a width (length) below tileSize
\* gives exactly one column (row), both below give the single tile at x = 0,
\* z = 0; the width and length are not clamped to the UI bounds 20..500.
C2_GridDimensions ==
    \A g \in 1..gen :
        ValidCall(calls[g]) =>
            LET c == calls[g]
                columns == Cardinality({loads[g][i].x : i \in DOMAIN loads[g]})
                rows == Cardinality({loads[g][i].z : i \in DOMAIN loads[g]})
            IN  /\ columns = CeilOf(c.width.val, c.tileSize) /\ columns >= 1
                /\ rows = CeilOf(c.length.val, c.tileSize) /\ rows >= 1
                /\ c.width.val < c.tileSize => columns = 1
                /\ c.length.val < c.tileSize => rows = 1
                /\ (c.width.val < c.tileSize /\ c.length.val < c.tileSize) =>
                      /\ Len(loads[g]) = 1
                      /\ CentersOf(g) = {<<0, 0>>}
                /\ c.width.val < UiMin => columns * c.tileSize < UiMin + c.tileSize
                /\ c.length.val < UiMin => rows * c.tileSize < UiMin + c.tileSize

C2_Witness ==
    /\ gen = 1
    /\ calls[1].width.val = 3 /\ calls[1].length.val = 2 /\ calls[1].tileSize = 4
    /\ Len(loads[1]) = 1
    /\ loads[1][1].posX2 = 0 /\ loads[1][1].posZ2 = 0

\* C3: for valid inputs the tile centers are centered on the origin: the least
\* x is the negative of the greatest x, likewise for z, and the set of centers
\* is unchanged by x -> -x and by z -> -z.
C3_CenteredOnOrigin ==
    \A g \in 1..gen :
        ValidCall(calls[g]) =>
            LET xs == {p[1] : p \in CentersOf(g)}
                zs == {p[2] : p \in CentersOf(g)}
            IN  /\ xs # {} /\ zs # {}
                /\ Least(xs) = -Greatest(xs)
                /\ Least(zs) = -Greatest(zs)
                /\ {<<-p[1], p[2]>> : p \in CentersOf(g)} = CentersOf(g)
                /\ {<<p[1], -p[2]>> : p \in CentersOf(g)} = CentersOf(g)

C3_Witness ==
    /\ gen = 1
    /\ calls[1].width.val = 5 /\ calls[1].length.val = 3 /\ calls[1].tileSize = 2
    /\ Len(loads[1]) = 6
    /\ CentersOf(1) = {-4, 0, 4} \X {-2, 2}

\* C4: for valid inputs the grid covers the requested plate with less than one
\* tile to spare: width <= columns * tileSize < width + tileSize, and likewise
\* for the rows; 22 x 22 with tileSize 4 gives 6 x 6 = 36 placements.
C4_FootprintCovers ==
    \A g \in 1..gen :
        ValidCall(calls[g]) =>
            LET c == calls[g]
                columns == Cardinality({loads[g][i].x : i \in DOMAIN loads[g]})
                rows == Cardinality({loads[g][i].z : i \in DOMAIN loads[g]})
            IN  /\ columns * c.tileSize >= c.width.val
                /\ columns * c.tileSize < c.width.val + c.tileSize
                /\ rows * c.tileSize >= c.length.val
                /\ rows * c.tileSize < c.length.val + c.tileSize
                /\ (c.width.val = 22 /\ c.length.val = 22 /\ c.tileSize = 4) =>
                      columns = 6 /\ rows = 6 /\ Len(loads[g]) = 36

C4_Witness ==
    /\ gen = 1
    /\ calls[1].width.val = 22 /\ calls[1].length.val = 22 /\ calls[1].tileSize = 4
    /\ Len(loads[1]) = 36

\* C5, as stated: two generations with identical inputs end with baseplate
\* groups whose tiles are at the same positions in the same order, whatever
\* the completion order of the loads.
C5_SameGroupOrder ==
    \A g \in 1..gen, h \in 1..gen :
        (calls[g] = calls[h] /\ FullyLoaded(g) /\ FullyLoaded(h)) =>
            PlacedSeq(g) = PlacedSeq(h)

\* C5, amended: two generations with identical inputs issue the identical
\* sequence of placements, and once every load of both has completed
\* successfully their groups hold equally many tiles at the same set of
\* positions (the order within a group is the loads' completion order).
C5_SamePlacements ==
    \A g \in 1..gen, h \in 1..gen :
        (g < h /\ calls[g] = calls[h]) =>
            /\ loads[g] = loads[h]
            /\ (FullyLoaded(g) /\ FullyLoaded(h)) =>
                  /\ Len(group[g]) = Len(group[h])
                  /\ Range(PlacedSeq(g)) = Range(PlacedSeq(h))

C5_Witness ==
    \E g \in 1..gen, h \in 1..gen :
        /\ g # h /\ calls[g] = calls[h]
        /\ FullyLoaded(g) /\ FullyLoaded(h)
        /\ Len(group[g]) = 2
        /\ PlacedSeq(g) # PlacedSeq(h)

\* C6: neither the page load nor a click ever calls init / setupEnvironment /
\* createBaseplate with a width or length that is NaN or <= 0.
C6_InvalidDimensionsRejected ==
    \A g \in 1..gen :
        /\ ~calls[g].width.nan /\ calls[g].width.val > 0
        /\ ~calls[g].length.nan /\ calls[g].length.val > 0

C8_AnyCompletionOrder ==
    \A g \in 1..gen :
        /\ \A k \in DOMAIN group[g] :
              LET t == group[g][k]
                  r == loads[t.from][t.request]
              IN  <<t.posX2, t.y2, t.posZ2>> = <<r.posX2, r.y2, r.posZ2>>
        /\ \A k \in DOMAIN group[g], m \in DOMAIN group[g] :
              k # m =>
                  <<loads[group[g][k].from][group[g][k].request].x,
                    loads[group[g][k].from][group[g][k].request].z>>
                  # <<loads[group[g][m].from][group[g][m].request].x,
                      loads[group[g][m].from][group[g][m].request].z>>
        /\ FullyLoaded(g) => PlacedOf(g) = CentersOf(g)

C8_Witness ==
    \E g \in 1..gen :
        /\ Len(loads[g]) = 2
        /\ FullyLoaded(g)
        /\ group[g][1].request = 2
        /\ group[g][2].request = 1

\* C9: after the page load and any clicks, body holds exactly one canvas, the
\* one of the latest generation, and the container, and nothing of an earlier
\* generation is active: no earlier animation loop, no earlier resize listener.
C9_FullTeardown ==
    loaded =>
        /\ Len(body) = 2
        /\ Range(body) = {Canvas(gen), Container}
        /\ animating = {gen}
        /\ resizeListeners = {gen}

\* C10: a load of an earlier generation that completes after a later click
\* adds its tile to the group of the generation that issued it: every group,
\* the current scene's included, holds only tiles of its own generation, at
\* positions computed from that generation's width and length.
C10_OwnGroupOnly ==
    \A g \in 1..gen :
        \A k \in DOMAIN group[g] :
            /\ group[g][k].from = g
            /\ group[g][k].request \in DOMAIN loads[g]
            /\ \E i \in DOMAIN loads[g] :
                  /\ group[g][k].posX2 = loads[g][i].posX2
                  /\ group[g][k].posZ2 = loads[g][i].posZ2

C10_Witness ==
    \E g \in 1..gen :
        /\ g < gen
        /\ lateLoad
        /\ group[g] # <<>>
        /\ calls[g] # calls[gen]

====
